---- MODULE Spec2Model ----
(***************************************************************************)
(* Client-side selection and feed synchronisation of the news-radar        *)
(* dashboard: the session gate (AuthDialogProvider), the group selection   *)
(* and its repair effect (Layout), the topics cache (Layout.loadTopics),   *)
(* the feed loader and the optimistic bookmark toggle (Dashboard).         *)
(*                                                                         *)
(* React is modelled as it schedules the code: an event handler, or the    *)
(* continuation of an awaited request, runs atomically and replaces some   *)
(* state; React then renders and runs every effect whose dependency list   *)
(* names a replaced value, all of them against the values of that render,  *)
(* batches their state updates and repeats until no dependency changes.    *)
(* No other event is handled in between, so an action is the handler       *)
(* together with the effects it sets off.                                  *)
(***************************************************************************)
EXTENDS Integers, Sequences, FiniteSets, Bags, TLC

VARIABLES
    isAuthenticated,    \* AuthDialogProvider: "null" | "true" | "false"
    authReq,            \* refreshAuth: getCurrentUser() in flight
    groups,             \* Layout: topic groups, in server list order
    selectedGroupId,    \* TopicGroupProvider: "" when no group is selected
    selectedTopicUuid,  \* TopicGroupProvider: "" stands for null
    topics,             \* TopicsProvider: the loaded topics
    creatingGroup,      \* Layout: handleCreateGroup awaits createTopicGroup
    news,               \* Dashboard: the feed items
    loading,            \* Dashboard: feed loading flag
    error,              \* Dashboard: "" stands for null
    groupsReqs,         \* number of loadGroups calls awaiting listTopicGroups
    topicsReqs,         \* bag of loadTopics calls awaiting listTopics
    feedReqs,           \* bag of loadFeed calls awaiting listContentFeed
    bookmarkReqs,       \* bag of toggleBookmark calls awaiting their request
    serverBookmarks,    \* backend: ids of the bookmarked content items
    lastStep,           \* history: the step taken last
    groupSaveReqs,      \* Dashboard: updateTopicGroup calls in flight (groupSaving)
    groupError,         \* Dashboard: the error of the group editor, "" = null
    contentViewMode     \* TopicGroupProvider: "read" | "edit"

vars == <<isAuthenticated, authReq, groups, selectedGroupId,
          selectedTopicUuid, topics, creatingGroup, news, loading, error,
          groupsReqs, topicsReqs, feedReqs, bookmarkReqs, serverBookmarks,
          lastStep, groupSaveReqs, groupError, contentViewMode>>

(***************************************************************************)
(* Bounds on the requests in flight, and the data the backend serves.      *)
(***************************************************************************)
MaxInFlight == 2
MaxGroups == 2
MaxQueries == 1

GroupIds == {"g1", "g2", "g3"}
NoError == ""
\* The message of a rejected request (error.message, whatever the request).
ErrorMessage == "Request failed."

\* The topics the backend holds: each belongs to one group.
\* A text is the sequence of its characters.
ServerTopics ==
    << [uuid |-> "t1", group_uuid |-> "g1",
        queries |-> << <<"b">> >>, is_active |-> TRUE],
       [uuid |-> "t2", group_uuid |-> "g2",
        queries |-> << <<"b">> >>, is_active |-> TRUE] >>

\* The content the backend holds: each item is attributed to one topic.
ServerItems ==
    << [id |-> 1, topic_uuid |-> "t1"],
       [id |-> 2, topic_uuid |-> "t2"] >>

ItemIds == {ServerItems[i].id : i \in DOMAIN ServerItems}

(***************************************************************************)
(* Helpers on sequences.                                                   *)
(***************************************************************************)
\* Calls in flight are kept as bags: they resolve in any order.
Issue(calls, call) == calls (+) SetToBag({call})
Settle(calls, call) == calls (-) SetToBag({call})

Uuids(gs) == {gs[i].uuid : i \in DOMAIN gs}

\* Every list of groups with distinct uuids.
GroupRecords == [uuid : GroupIds, is_public : BOOLEAN]
GroupLists ==
    {gs \in UNION {[1..n -> GroupRecords] : n \in 0..MaxGroups} :
        \A i, j \in DOMAIN gs : i # j => gs[i].uuid # gs[j].uuid}

\* The group a createTopicGroup response holds: private or public.
NewGroups == [uuid : {"g3"}, is_public : BOOLEAN]

\* The lists a listTopicGroups response holds: a private group before a
\* public one, two public groups.
ServerGroupLists ==
    { << [uuid |-> "g1", is_public |-> FALSE], [uuid |-> "g2", is_public |-> TRUE] >>,
      << [uuid |-> "g2", is_public |-> TRUE], [uuid |-> "g1", is_public |-> TRUE] >> }

(***************************************************************************)
(* The backend, as the client observes it through lib/api.ts.              *)
(***************************************************************************)
\* GET /api/topics/?group_uuid=: the topics of that group, or all of them.
ListTopics(groupUuid) ==
    SelectSeq(ServerTopics, LAMBDA t : groupUuid = "" \/ t.group_uuid = groupUuid)

\* GET /api/contents/?topic_uuid=: the items of that topic, or all of them,
\* each with the bookmark flag the backend holds when it answers.
ListContentFeed(topicUuid) ==
    LET found == SelectSeq(ServerItems,
                     LAMBDA it : topicUuid = "" \/ it.topic_uuid = topicUuid)
    IN  [i \in DOMAIN found |->
            [id |-> found[i].id, topic_uuid |-> found[i].topic_uuid,
             is_bookmarked |-> found[i].id \in serverBookmarks]]

(***************************************************************************)
(* Layout: the selection-repair effect.                                    *)
(***************************************************************************)
HasGroup(gs, id) == \E i \in DOMAIN gs : gs[i].uuid = id

\* Variant: the signed-out branch looks the selection up in every group.
RepairAllGroups(gs, auth, prev) ==
    IF auth = "null" THEN prev
    ELSE IF auth = "false"
    THEN LET publicGroups == SelectSeq(gs, LAMBDA g : g.is_public)
         IN  IF Len(publicGroups) = 0 THEN ""
             ELSE IF ~HasGroup(gs, prev) THEN publicGroups[1].uuid
             ELSE prev
    ELSE IF ~HasGroup(gs, prev)
         THEN (IF Len(gs) > 0 THEN gs[1].uuid ELSE "")
         ELSE prev

\* Variant: the fallback is the last candidate, not the first.
RepairLast(gs, auth, prev) ==
    IF auth = "null" THEN prev
    ELSE IF auth = "false"
    THEN LET publicGroups == SelectSeq(gs, LAMBDA g : g.is_public)
         IN  IF Len(publicGroups) = 0 THEN ""
             ELSE IF ~HasGroup(publicGroups, prev)
                  THEN publicGroups[Len(publicGroups)].uuid
             ELSE prev
    ELSE IF ~HasGroup(gs, prev)
         THEN (IF Len(gs) > 0 THEN gs[Len(gs)].uuid ELSE "")
         ELSE prev

\* Variant: the signed-out branch does not return, so the signed-in check
\* runs after it and its setSelectedGroupId is the one that lasts.
RepairFallThrough(gs, auth, prev) ==
    IF auth = "null" THEN prev
    ELSE LET publicGroups == SelectSeq(gs, LAMBDA g : g.is_public)
             first == IF auth = "true" THEN prev
                      ELSE IF Len(publicGroups) = 0 THEN ""
                      ELSE IF ~HasGroup(publicGroups, prev)
                           THEN publicGroups[1].uuid
                      ELSE prev
         IN  IF ~HasGroup(gs, prev)
             THEN (IF Len(gs) > 0 THEN gs[1].uuid ELSE "")
             ELSE first

\* Variant: an unresolved authentication state is taken for signed out.
RepairEager(gs, auth, prev) ==
    LET publicGroups == SelectSeq(gs, LAMBDA g : g.is_public)
    IN  IF auth # "true"
        THEN IF Len(publicGroups) = 0 THEN ""
             ELSE IF ~HasGroup(publicGroups, prev) THEN publicGroups[1].uuid
             ELSE prev
        ELSE IF ~HasGroup(gs, prev)
             THEN (IF Len(gs) > 0 THEN gs[1].uuid ELSE "")
             ELSE prev

Repair(gs, auth, prev) ==
    IF auth = "null" THEN prev
    ELSE IF auth = "false"
    THEN LET publicGroups == SelectSeq(gs, LAMBDA g : g.is_public)
         IN  IF Len(publicGroups) = 0 THEN ""
             ELSE IF ~HasGroup(publicGroups, prev) THEN publicGroups[1].uuid
             ELSE prev
    ELSE IF ~HasGroup(gs, prev)
         THEN (IF Len(gs) > 0 THEN gs[1].uuid ELSE "")
         ELSE prev

\* The groups the group selector offers (Layout.groupedOptions).
GroupedOptions ==
    IF isAuthenticated = "false"
    THEN {groups[i].uuid : i \in {j \in DOMAIN groups : groups[j].is_public}}
    ELSE Uuids(groups)

\* Variant: the topics of the selected group, whoever the user is.
filteredTopicsAlwaysByGroup ==
    SelectSeq(topics, LAMBDA topic : topic.groupUuid = selectedGroupId)

\* Layout: the filteredTopics memo, over [isAuthenticated, selectedGroupId,
\* topics].
filteredTopics ==
    IF isAuthenticated = "false" THEN topics
    ELSE IF selectedGroupId = "" THEN topics
    ELSE SelectSeq(topics, LAMBDA topic : topic.groupUuid = selectedGroupId)

(***************************************************************************)
(* Dashboard: the feed loader.                                             *)
(***************************************************************************)
mapNewsItem(item) == [id |-> item.id, isBookmarked |-> item.is_bookmarked]

\* Variant: the response is committed as it came.
LoadFeedItemsUnfiltered(req, response) ==
    [i \in DOMAIN response |-> mapNewsItem(response[i])]

\* What loadFeed commits for a response: `req` holds the selectedTopicUuid,
\* selectedGroupId and topics of the render that started the load.
LoadFeedItems(req, response) ==
    LET groupTopicUuids ==
            {req.topics[i].uuid :
                i \in {j \in DOMAIN req.topics :
                          req.topics[j].groupUuid = req.groupId}}
        items ==
            IF req.topicUuid = "" /\ req.groupId # ""
            THEN IF groupTopicUuids # {}
                 THEN SelectSeq(response,
                          LAMBDA it : it.topic_uuid \in groupTopicUuids)
                 ELSE << >>
            ELSE response
    IN  [i \in DOMAIN items |-> mapNewsItem(items[i])]

\* toggleBookmark's two list updates: set the entry with this id to `value`.
SetBookmarked(list, id, value) ==
    [i \in DOMAIN list |->
        IF list[i].id = id THEN [list[i] EXCEPT !.isBookmarked = value]
        ELSE list[i]]

(***************************************************************************)
(* The effects.  `s` holds the values of the render the effects close      *)
(* over, `d` the names of the values replaced since the previous render.   *)
(***************************************************************************)
\* The state the effects read and write.
Rendered ==
    [isAuthenticated |-> isAuthenticated, groups |-> groups,
     selectedGroupId |-> selectedGroupId, selectedTopicUuid |-> selectedTopicUuid,
     topics |-> topics, news |-> news, loading |-> loading, error |-> error,
     groupsReqs |-> groupsReqs, topicsReqs |-> topicsReqs, feedReqs |-> feedReqs]

RunsLoadGroupsEffect(d) == "isAuthenticated" \in d
RunsLoadTopicsEffect(d) == "isAuthenticated" \in d
RunsPublicTopicsEffect(d) == d \cap {"isAuthenticated", "selectedGroupId"} # {}
RunsRepairEffect(d) == d \cap {"groups", "isAuthenticated", "selectedGroupId"} # {}
RunsFeedEffect(d) ==
    d \cap {"isAuthenticated", "selectedGroupId", "selectedTopicUuid", "topics"} # {}

\* Layout: loadGroups once isAuthenticated is known.
LoadGroupsEffect(s, d) ==
    IF RunsLoadGroupsEffect(d) /\ s.isAuthenticated # "null"
    THEN s.groupsReqs + 1
    ELSE s.groupsReqs

\* Layout: loadTopics() when authenticated; loadTopics(selectedGroupId) when
\* unauthenticated with a group selected.
LoadTopicsEffect(s, d) ==
    IF RunsLoadTopicsEffect(d) /\ s.isAuthenticated = "true"
    THEN Issue(s.topicsReqs, [groupUuid |-> ""])
    ELSE IF /\ RunsPublicTopicsEffect(d)
            /\ s.isAuthenticated = "false"
            /\ s.selectedGroupId # ""
    THEN Issue(s.topicsReqs, [groupUuid |-> s.selectedGroupId])
    ELSE s.topicsReqs

\* Layout: setTopics([]) when unauthenticated with no group selected.
ClearsTopics(s, d) ==
    RunsPublicTopicsEffect(d) /\ s.isAuthenticated = "false" /\ s.selectedGroupId = ""

\* Layout: the selection-repair effect.
RepairEffect(s, d) ==
    IF RunsRepairEffect(d)
    THEN Repair(s.groups, s.isAuthenticated, s.selectedGroupId)
    ELSE s.selectedGroupId

\* Dashboard: the feed effect calls loadFeed when authenticated and empties
\* the feed when unauthenticated.
StartsLoadFeed(s, d) == RunsFeedEffect(d) /\ s.isAuthenticated = "true"
ClearsFeed(s, d) == RunsFeedEffect(d) /\ s.isAuthenticated = "false"

\* loadFeed up to its await; the call keeps the selection and the topics of
\* the render that started it.
LoadFeedCall(s) ==
    [topicUuid |-> s.selectedTopicUuid, groupId |-> s.selectedGroupId,
     topics |-> s.topics]

\* One render's effects, their state updates batched.
CommitEffects(s, d) ==
    [s EXCEPT
        !.groupsReqs = LoadGroupsEffect(s, d),
        !.topicsReqs = LoadTopicsEffect(s, d),
        !.topics = IF ClearsTopics(s, d) THEN << >> ELSE s.topics,
        !.selectedGroupId = RepairEffect(s, d),
        !.feedReqs = IF StartsLoadFeed(s, d)
                     THEN Issue(s.feedReqs, LoadFeedCall(s))
                     ELSE s.feedReqs,
        !.loading = IF StartsLoadFeed(s, d) THEN TRUE
                    ELSE IF ClearsFeed(s, d) THEN FALSE ELSE s.loading,
        !.error = IF StartsLoadFeed(s, d) THEN NoError ELSE s.error,
        !.news = IF ClearsFeed(s, d) THEN << >> ELSE s.news]

\* The dependencies that render's effects replaced.
Replaced(s, d) ==
    (IF RepairEffect(s, d) # s.selectedGroupId THEN {"selectedGroupId"} ELSE {})
        \cup (IF ClearsTopics(s, d) THEN {"topics"} ELSE {})

\* Render and run effects until no dependency is replaced.
RECURSIVE RunEffects(_, _)
RunEffects(s, d) ==
    IF d = {} THEN s ELSE RunEffects(CommitEffects(s, d), Replaced(s, d))

\* A handler replaced the values named in d, giving s: the state once the
\* effects have settled.
Render(s, d) ==
    \E r \in {RunEffects(s, d)} :
        /\ isAuthenticated' = r.isAuthenticated
        /\ groups' = r.groups
        /\ selectedGroupId' = r.selectedGroupId
        /\ selectedTopicUuid' = r.selectedTopicUuid
        /\ topics' = r.topics
        /\ news' = r.news
        /\ loading' = r.loading
        /\ error' = r.error
        /\ groupsReqs' = r.groupsReqs
        /\ topicsReqs' = r.topicsReqs
        /\ feedReqs' = r.feedReqs

(***************************************************************************)
(* Initial state: the providers are mounted, isAuthenticated is unknown    *)
(* and refreshAuth has issued getCurrentUser; every effect has run once    *)
(* and returned early.                                                     *)
(***************************************************************************)
Init ==
    /\ isAuthenticated = "null"
    /\ authReq = TRUE
    /\ groups = << >>
    /\ selectedGroupId = ""
    /\ selectedTopicUuid = ""
    /\ topics = << >>
    /\ creatingGroup = FALSE
    /\ news = << >>
    /\ loading = FALSE
    /\ error = NoError
    /\ groupsReqs = 0
    /\ topicsReqs = EmptyBag
    /\ feedReqs = EmptyBag
    /\ bookmarkReqs = EmptyBag
    /\ serverBookmarks = {}
    /\ groupSaveReqs = EmptyBag
    /\ groupError = NoError
    /\ contentViewMode = "read"
    /\ lastStep = [op |-> "Init", ok |-> TRUE]

\* The user starts something new only while fewer than MaxInFlight requests
\* are awaiting their response; a response is handled whenever it arrives.
InFlight ==
    groupsReqs + BagCardinality(topicsReqs) + BagCardinality(feedReqs)
        + BagCardinality(bookmarkReqs)
        + (IF creatingGroup THEN 1 ELSE 0)
Accepting == InFlight < MaxInFlight

(***************************************************************************)
(* AuthDialogProvider.                                                     *)
(***************************************************************************)
\* Dashboard: the view-mode effect, over [contentViewMode, isAuthenticated].
ViewModeEffect(auth, mode) ==
    IF auth = "false" /\ mode = "edit" THEN "read" ELSE mode

\* refreshAuth after its await: getCurrentUser() resolved (ok) or rejected.
RefreshAuthDone(ok) ==
    /\ authReq
    /\ authReq' = FALSE
    /\ Render([Rendered EXCEPT !.isAuthenticated = IF ok THEN "true" ELSE "false"],
              {"isAuthenticated"})
    /\ lastStep' = [op |-> "RefreshAuthDone", ok |-> ok]
    /\ contentViewMode' = ViewModeEffect(isAuthenticated', contentViewMode)
    /\ UNCHANGED <<groupSaveReqs, groupError, contentViewMode>>
    /\ UNCHANGED <<creatingGroup, bookmarkReqs,
                   serverBookmarks>>

\* Layout.handleLogout -> signOut: logout() is awaited and the finally block
\* runs whether it resolved or rejected.  Nothing reads the pending call, so
\* the step is taken when the finally block runs.
SignOut ==
    /\ Accepting
    /\ isAuthenticated = "true"
    /\ Render([Rendered EXCEPT !.isAuthenticated = "false"], {"isAuthenticated"})
    /\ lastStep' = [op |-> "SignOut", ok |-> TRUE]
    /\ contentViewMode' = ViewModeEffect(isAuthenticated', contentViewMode)
    /\ UNCHANGED <<groupSaveReqs, groupError, contentViewMode>>
    /\ UNCHANGED <<authReq, creatingGroup, bookmarkReqs, serverBookmarks>>

(***************************************************************************)
(* Layout: groups and topics loads, group selection, group creation.       *)
(***************************************************************************)
toTopicItem(topic) ==
    [uuid |-> topic.uuid, groupUuid |-> topic.group_uuid,
     queries |-> topic.queries, isActive |-> topic.is_active]

\* loadGroups after its await: the response's groups, or [] when it failed.
LoadGroupsDone(ok, response) ==
    /\ groupsReqs > 0
    /\ Render([Rendered EXCEPT !.groupsReqs = groupsReqs - 1,
                               !.groups = IF ok THEN response ELSE << >>],
              {"groups"})
    /\ lastStep' = [op |-> "LoadGroupsDone", ok |-> ok]
    /\ UNCHANGED <<groupSaveReqs, groupError, contentViewMode>>
    /\ UNCHANGED <<authReq, creatingGroup,
                   bookmarkReqs, serverBookmarks>>

\* loadTopics after its await: the mapped response, or [] when it failed.
LoadTopicsDone(call, ok) ==
    /\ BagIn(call, topicsReqs)
    /\ LET response == ListTopics(call.groupUuid)
       IN  Render([Rendered EXCEPT
                      !.topicsReqs = Settle(topicsReqs, call),
                      !.topics = IF ok
                                 THEN [k \in DOMAIN response |->
                                          toTopicItem(response[k])]
                                 ELSE << >>],
                  {"topics"})
    /\ lastStep' = [op |-> "LoadTopicsDone", ok |-> ok]
    /\ UNCHANGED <<groupSaveReqs, groupError, contentViewMode>>
    /\ UNCHANGED <<authReq, creatingGroup,
                   bookmarkReqs, serverBookmarks>>

\* The group selector's onValueChange = setSelectedGroupId.
SelectGroup(id) ==
    /\ Accepting
    /\ id \in GroupedOptions
    /\ id # selectedGroupId
    /\ Render([Rendered EXCEPT !.selectedGroupId = id], {"selectedGroupId"})
    /\ lastStep' = [op |-> "SelectGroup", ok |-> TRUE]
    /\ UNCHANGED <<groupSaveReqs, groupError, contentViewMode>>
    /\ UNCHANGED <<authReq, creatingGroup,
                   bookmarkReqs, serverBookmarks>>

\* handleCreateGroup up to its await: the name and the visibility the user
\* gives go to the backend.
CreateGroup ==
    /\ Accepting
    /\ isAuthenticated = "true"
    /\ ~creatingGroup
    /\ creatingGroup' = TRUE
    /\ lastStep' = [op |-> "CreateGroup", ok |-> TRUE]
    /\ UNCHANGED <<groupSaveReqs, groupError, contentViewMode>>
    /\ UNCHANGED <<isAuthenticated, authReq, groups,
                   selectedGroupId, selectedTopicUuid, topics, news, loading,
                   error, groupsReqs, topicsReqs, feedReqs, bookmarkReqs,
                   serverBookmarks>>

\* Variant: the new group is put first in the list.
CreateGroupDonePrepends(ok, group) ==
    /\ creatingGroup
    /\ creatingGroup' = FALSE
    /\ IF ok
       THEN /\ group.uuid \notin Uuids(groups)
            /\ Render([Rendered EXCEPT
                          !.groups = <<group>> \o groups,
                          !.selectedGroupId = group.uuid],
                      {"groups"} \cup
                          (IF group.uuid # selectedGroupId
                           THEN {"selectedGroupId"} ELSE {}))
       ELSE Render(Rendered, {})
    /\ lastStep' = [op |-> "CreateGroupDone", ok |-> ok]
    /\ UNCHANGED <<groupSaveReqs, groupError, contentViewMode>>
    /\ UNCHANGED <<authReq, bookmarkReqs, serverBookmarks>>

\* handleCreateGroup after its await: response.group is the group the
\* backend created, under a uuid of its own making.
CreateGroupDone(ok, group) ==
    /\ creatingGroup
    /\ creatingGroup' = FALSE
    /\ IF ok
       THEN /\ group.uuid \notin Uuids(groups)
            /\ Render([Rendered EXCEPT
                          !.groups = Append(groups, group),
                          !.selectedGroupId = group.uuid],
                      {"groups"} \cup
                          (IF group.uuid # selectedGroupId
                           THEN {"selectedGroupId"} ELSE {}))
       ELSE Render(Rendered, {})
    /\ lastStep' = [op |-> "CreateGroupDone", ok |-> ok]
    /\ UNCHANGED <<groupSaveReqs, groupError, contentViewMode>>
    /\ UNCHANGED <<authReq, bookmarkReqs, serverBookmarks>>

(***************************************************************************)
(* Dashboard: feed responses and the bookmark toggle.                      *)
(***************************************************************************)
\* Variant: a rejected load leaves the items on screen.
LoadFeedDoneKeepsItems(call, ok) ==
    /\ BagIn(call, feedReqs)
    /\ feedReqs' = Settle(feedReqs, call)
    /\ IF ok
       THEN /\ news' = LoadFeedItems(call, ListContentFeed(call.topicUuid))
            /\ error' = error
       ELSE /\ error' = ErrorMessage
            /\ news' = news
    /\ loading' = FALSE
    /\ lastStep' = [op |-> "LoadFeedDone", ok |-> ok]
    /\ UNCHANGED <<groupSaveReqs, groupError, contentViewMode>>
    /\ UNCHANGED <<isAuthenticated, authReq, groups,
                   selectedGroupId, selectedTopicUuid, topics, creatingGroup,
                   groupsReqs, topicsReqs, bookmarkReqs, serverBookmarks>>

\* Variant: a rejected load leaves the loading flag on.
LoadFeedDoneKeepsLoading(call, ok) ==
    /\ BagIn(call, feedReqs)
    /\ feedReqs' = Settle(feedReqs, call)
    /\ IF ok
       THEN /\ news' = LoadFeedItems(call, ListContentFeed(call.topicUuid))
            /\ error' = error
            /\ loading' = FALSE
       ELSE /\ error' = ErrorMessage
            /\ news' = << >>
            /\ loading' = loading
    /\ lastStep' = [op |-> "LoadFeedDone", ok |-> ok]
    /\ UNCHANGED <<groupSaveReqs, groupError, contentViewMode>>
    /\ UNCHANGED <<isAuthenticated, authReq, groups,
                   selectedGroupId, selectedTopicUuid, topics, creatingGroup, groupsReqs, topicsReqs, bookmarkReqs,
                   serverBookmarks>>

\* loadFeed after its await: try, catch and finally.
LoadFeedDone(call, ok) ==
    /\ BagIn(call, feedReqs)
    /\ feedReqs' = Settle(feedReqs, call)
    /\ IF ok
       THEN /\ news' = LoadFeedItems(call, ListContentFeed(call.topicUuid))
            /\ error' = error
       ELSE /\ error' = ErrorMessage
            /\ news' = << >>
    /\ loading' = FALSE
    /\ lastStep' = [op |-> "LoadFeedDone", ok |-> ok]
    /\ UNCHANGED <<groupSaveReqs, groupError, contentViewMode>>
    /\ UNCHANGED <<isAuthenticated, authReq, groups,
                   selectedGroupId, selectedTopicUuid, topics, creatingGroup, groupsReqs, topicsReqs, bookmarkReqs,
                   serverBookmarks>>

\* Variant: the request is issued and the flag waits for the response.
ToggleBookmarkNotOptimistic(i) ==
    /\ Accepting
    /\ i \in DOMAIN news
    /\ LET item == news[i]
           nextValue == ~item.isBookmarked
       IN  /\ news' = news
           /\ bookmarkReqs' = Issue(bookmarkReqs,
                  [item |-> item, nextValue |-> nextValue,
                   request |-> IF nextValue THEN "createBookmark"
                               ELSE "deleteBookmark"])
    /\ lastStep' = [op |-> "ToggleBookmark", ok |-> TRUE]
    /\ UNCHANGED <<groupSaveReqs, groupError, contentViewMode>>
    /\ UNCHANGED <<isAuthenticated, authReq, groups,
                   selectedGroupId, selectedTopicUuid, topics, creatingGroup,
                   loading, error, groupsReqs, topicsReqs, feedReqs,
                   serverBookmarks>>

\* toggleBookmark(item) up to its await: item is the i-th rendered entry.
ToggleBookmark(i) ==
    /\ Accepting
    /\ i \in DOMAIN news
    /\ LET item == news[i]
           nextValue == ~item.isBookmarked
       IN  /\ news' = SetBookmarked(news, item.id, nextValue)
           /\ bookmarkReqs' = Issue(bookmarkReqs,
                  [item |-> item, nextValue |-> nextValue,
                   request |-> IF nextValue THEN "createBookmark"
                               ELSE "deleteBookmark"])
    /\ lastStep' = [op |-> "ToggleBookmark", ok |-> TRUE]
    /\ UNCHANGED <<groupSaveReqs, groupError, contentViewMode>>
    /\ UNCHANGED <<isAuthenticated, authReq, groups,
                   selectedGroupId, selectedTopicUuid, topics, creatingGroup, loading, error, groupsReqs, topicsReqs,
                   feedReqs, serverBookmarks>>

\* Variant: the catch block reports the error and leaves the flag flipped.
ToggleBookmarkDoneNoRollback(call, ok) ==
    /\ BagIn(call, bookmarkReqs)
    /\ bookmarkReqs' = Settle(bookmarkReqs, call)
    /\ IF ok
       THEN /\ serverBookmarks' =
                   IF call.request = "createBookmark"
                   THEN serverBookmarks \cup {call.item.id}
                   ELSE serverBookmarks \ {call.item.id}
            /\ UNCHANGED <<news, error>>
       ELSE /\ news' = news
            /\ error' = ErrorMessage
            /\ UNCHANGED serverBookmarks
    /\ lastStep' = [op |-> "ToggleBookmarkDone", ok |-> ok, call |-> call]
    /\ UNCHANGED <<groupSaveReqs, groupError, contentViewMode>>
    /\ UNCHANGED <<isAuthenticated, authReq, groups,
                   selectedGroupId, selectedTopicUuid, topics, creatingGroup,
                   loading, groupsReqs, topicsReqs, feedReqs>>

\* Variant: the catch block puts the item back when the list lost it.
ToggleBookmarkDoneReinserts(call, ok) ==
    /\ BagIn(call, bookmarkReqs)
    /\ bookmarkReqs' = Settle(bookmarkReqs, call)
    /\ IF ok
       THEN /\ serverBookmarks' =
                   IF call.request = "createBookmark"
                   THEN serverBookmarks \cup {call.item.id}
                   ELSE serverBookmarks \ {call.item.id}
            /\ UNCHANGED <<news, error>>
       ELSE /\ news' = IF \E k \in DOMAIN news : news[k].id = call.item.id
                       THEN SetBookmarked(news, call.item.id,
                                          call.item.isBookmarked)
                       ELSE Append(news, call.item)
            /\ error' = ErrorMessage
            /\ UNCHANGED serverBookmarks
    /\ lastStep' = [op |-> "ToggleBookmarkDone", ok |-> ok, call |-> call]
    /\ UNCHANGED <<groupSaveReqs, groupError, contentViewMode>>
    /\ UNCHANGED <<isAuthenticated, authReq, groups,
                   selectedGroupId, selectedTopicUuid, topics, creatingGroup,
                   loading, groupsReqs, topicsReqs, feedReqs>>

\* Variant: the catch block negates the flag the entry has by then.
ToggleBookmarkDoneFlipsBack(call, ok) ==
    /\ BagIn(call, bookmarkReqs)
    /\ bookmarkReqs' = Settle(bookmarkReqs, call)
    /\ IF ok
       THEN /\ serverBookmarks' =
                   IF call.request = "createBookmark"
                   THEN serverBookmarks \cup {call.item.id}
                   ELSE serverBookmarks \ {call.item.id}
            /\ UNCHANGED <<news, error>>
       ELSE /\ news' = [k \in DOMAIN news |->
                          IF news[k].id = call.item.id
                          THEN [news[k] EXCEPT
                                   !.isBookmarked = ~news[k].isBookmarked]
                          ELSE news[k]]
            /\ error' = ErrorMessage
            /\ UNCHANGED serverBookmarks
    /\ lastStep' = [op |-> "ToggleBookmarkDone", ok |-> ok, call |-> call]
    /\ UNCHANGED <<groupSaveReqs, groupError, contentViewMode>>
    /\ UNCHANGED <<isAuthenticated, authReq, groups,
                   selectedGroupId, selectedTopicUuid, topics, creatingGroup,
                   loading, groupsReqs, topicsReqs, feedReqs>>

\* toggleBookmark after its await: createBookmark or deleteBookmark took
\* effect on the backend (ok), or the call rejected and the catch block runs.
ToggleBookmarkDone(call, ok) ==
    /\ BagIn(call, bookmarkReqs)
    /\ bookmarkReqs' = Settle(bookmarkReqs, call)
    /\ IF ok
       THEN /\ serverBookmarks' =
                   IF call.request = "createBookmark"
                   THEN serverBookmarks \cup {call.item.id}
                   ELSE serverBookmarks \ {call.item.id}
            /\ UNCHANGED <<news, error>>
       ELSE /\ news' = SetBookmarked(news, call.item.id, call.item.isBookmarked)
            /\ error' = ErrorMessage
            /\ UNCHANGED serverBookmarks
    /\ lastStep' = [op |-> "ToggleBookmarkDone", ok |-> ok, call |-> call]
    /\ UNCHANGED <<groupSaveReqs, groupError, contentViewMode>>
    /\ UNCHANGED <<isAuthenticated, authReq, groups,
                   selectedGroupId, selectedTopicUuid, topics, creatingGroup, loading, groupsReqs, topicsReqs, feedReqs>>

Next ==
    \/ \E ok \in BOOLEAN : RefreshAuthDone(ok)
    \/ SignOut
    \/ \E ok \in BOOLEAN, response \in ServerGroupLists :
          LoadGroupsDone(ok, response)
    \/ \E call \in BagToSet(topicsReqs), ok \in BOOLEAN : LoadTopicsDone(call, ok)
    \/ \E id \in GroupIds : SelectGroup(id)
    \/ CreateGroup
    \/ \E ok \in BOOLEAN, group \in NewGroups : CreateGroupDone(ok, group)
    \/ \E call \in BagToSet(feedReqs), ok \in BOOLEAN : LoadFeedDone(call, ok)
    \/ \E i \in DOMAIN news : ToggleBookmark(i)
    \/ \E call \in BagToSet(bookmarkReqs), ok \in BOOLEAN :
          ToggleBookmarkDone(call, ok)

Spec == Init /\ [][Next]_vars


(***************************************************************************)
(* The selection repair on its own: every groups list, authentication     *)
(* state and selection, and the repair effect applied to them.            *)
(***************************************************************************)
RepairInit ==
    /\ isAuthenticated \in {"null", "true", "false"}
    /\ groups \in GroupLists
    /\ selectedGroupId \in GroupIds \cup {""}
    /\ lastStep = [op |-> "Init", prev |-> selectedGroupId]
    /\ authReq = FALSE
    /\ selectedTopicUuid = ""
    /\ topics = << >>
    /\ creatingGroup = FALSE
    /\ news = << >>
    /\ loading = FALSE
    /\ error = NoError
    /\ groupsReqs = 0
    /\ topicsReqs = EmptyBag
    /\ feedReqs = EmptyBag
    /\ bookmarkReqs = EmptyBag
    /\ serverBookmarks = {}
    /\ groupSaveReqs = EmptyBag
    /\ groupError = NoError
    /\ contentViewMode = "read"

\* One run of the effect: lastStep keeps the selection it started from.
RepairSelection ==
    /\ selectedGroupId' = Repair(groups, isAuthenticated, selectedGroupId)
    /\ lastStep' = [op |-> "Repair", prev |-> selectedGroupId]
    /\ UNCHANGED <<groupSaveReqs, groupError, contentViewMode>>
    /\ UNCHANGED <<isAuthenticated, authReq, groups, selectedTopicUuid, topics,
                   creatingGroup, news, loading, error, groupsReqs, topicsReqs,
                   feedReqs, bookmarkReqs, serverBookmarks>>

RepairNext == RepairSelection

RepairSpec == RepairInit /\ [][RepairNext]_vars

(***************************************************************************)
(* The topics page on its own: the topic form (TopicForm) and the topic    *)
(* list (pages/Topics) acting on the loaded topics.  topicsReqs holds the  *)
(* calls on /api/topics in flight, error and loading are the page's.       *)
(***************************************************************************)
\* What the user may have typed into a field of the form.
Texts == { << >>, <<" ">>, <<" ", "a", " ">> }

\* The additional query fields of the form: at least one.
QueryFields == UNION {[1..n -> Texts] : n \in 1..MaxQueries}

RECURSIVE TrimStart(_)
TrimStart(text) ==
    IF text # << >> /\ Head(text) = " " THEN TrimStart(Tail(text)) ELSE text

RECURSIVE TrimEnd(_)
TrimEnd(text) ==
    IF text # << >> /\ text[Len(text)] = " "
    THEN TrimEnd(SubSeq(text, 1, Len(text) - 1))
    ELSE text

\* String.prototype.trim.
Trim(text) == TrimEnd(TrimStart(text))

\* Variant: the entries are filtered without being trimmed.
normalizedQueriesUntrimmed(topicName, queries) ==
    SelectSeq(<<topicName>> \o queries, LAMBDA q : q # << >>)

\* [topicName, ...queries].map((query) => query.trim()).filter(Boolean)
normalizedQueries(topicName, queries) ==
    LET all == <<topicName>> \o queries
        trimmed == [k \in DOMAIN all |-> Trim(all[k])]
    IN  SelectSeq(trimmed, LAMBDA q : q # << >>)

TopicUuids(list) == {list[k].uuid : k \in DOMAIN list}

\* The topic a createTopic response holds.
CreatedTopic(call) ==
    [uuid |-> "t3", group_uuid |-> call.groupUuid,
     queries |-> call.queries, is_active |-> TRUE]

\* The topic an updateTopic response holds: the backend's record of the
\* topic shown as item, with the queries of the call.
UpdatedTopic(call, item) ==
    [uuid |-> call.uuid, group_uuid |-> item.groupUuid,
     queries |-> call.queries, is_active |-> item.isActive]

SetActive(list, uuid, value) ==
    [k \in DOMAIN list |->
        IF list[k].uuid = uuid THEN [list[k] EXCEPT !.isActive = value]
        ELSE list[k]]

TopicsInit ==
    /\ isAuthenticated = "true"
    /\ authReq = FALSE
    /\ groups = << >>
    /\ selectedGroupId = "g1"
    /\ selectedTopicUuid = ""
    /\ topics = [k \in DOMAIN ServerTopics |-> toTopicItem(ServerTopics[k])]
    /\ creatingGroup = FALSE
    /\ news = << >>
    /\ loading = FALSE
    /\ error = NoError
    /\ groupsReqs = 0
    /\ topicsReqs = EmptyBag
    /\ feedReqs = EmptyBag
    /\ bookmarkReqs = EmptyBag
    /\ serverBookmarks = {}
    /\ groupSaveReqs = EmptyBag
    /\ groupError = NoError
    /\ contentViewMode = "read"
    /\ lastStep = [op |-> "Init", ok |-> TRUE]

\* TopicForm.addTopic up to its await, or to its early return; the submit
\* button is disabled while loading.
addTopic(topicName, queries) ==
    /\ Accepting
    /\ ~loading
    /\ "t3" \notin TopicUuids(topics)
    /\ LET normalized == normalizedQueries(topicName, queries)
       IN  IF Len(normalized) = 0
           THEN /\ lastStep' = [op |-> "addTopic", ok |-> FALSE,
                                input |-> <<topicName>> \o queries]
                /\ UNCHANGED <<error, loading, topicsReqs>>
           ELSE /\ error' = NoError
                /\ loading' = TRUE
                /\ topicsReqs' = Issue(topicsReqs,
                       [handler |-> "addTopic", queries |-> normalized,
                        groupUuid |-> selectedGroupId])
                /\ lastStep' = [op |-> "addTopic", ok |-> TRUE]
    /\ UNCHANGED <<groupSaveReqs, groupError, contentViewMode>>
    /\ UNCHANGED <<isAuthenticated, authReq, groups, selectedGroupId,
                   selectedTopicUuid, topics, creatingGroup, news, groupsReqs,
                   feedReqs, bookmarkReqs, serverBookmarks>>

\* Variant: a rejected createTopic still puts the topic in the list.
addTopicDoneKeepsTopic(call, ok) ==
    /\ BagIn(call, topicsReqs)
    /\ call.handler = "addTopic"
    /\ topicsReqs' = Settle(topicsReqs, call)
    /\ topics' = <<toTopicItem(CreatedTopic(call))>> \o topics
    /\ error' = IF ok THEN error ELSE ErrorMessage
    /\ loading' = FALSE
    /\ lastStep' = [op |-> "addTopicDone", ok |-> ok]
    /\ UNCHANGED <<groupSaveReqs, groupError, contentViewMode>>
    /\ UNCHANGED <<isAuthenticated, authReq, groups, selectedGroupId,
                   selectedTopicUuid, creatingGroup, news, groupsReqs,
                   feedReqs, bookmarkReqs, serverBookmarks>>

\* Variant: the created topic goes to the end of the list.
addTopicDoneAppends(call, ok) ==
    /\ BagIn(call, topicsReqs)
    /\ call.handler = "addTopic"
    /\ topicsReqs' = Settle(topicsReqs, call)
    /\ IF ok
       THEN /\ topics' = Append(topics, toTopicItem(CreatedTopic(call)))
            /\ error' = error
       ELSE /\ topics' = topics
            /\ error' = ErrorMessage
    /\ loading' = FALSE
    /\ lastStep' = [op |-> "addTopicDone", ok |-> ok]
    /\ UNCHANGED <<groupSaveReqs, groupError, contentViewMode>>
    /\ UNCHANGED <<isAuthenticated, authReq, groups, selectedGroupId,
                   selectedTopicUuid, creatingGroup, news, groupsReqs,
                   feedReqs, bookmarkReqs, serverBookmarks>>

\* TopicForm.addTopic after its await.
addTopicDone(call, ok) ==
    /\ BagIn(call, topicsReqs)
    /\ call.handler = "addTopic"
    /\ topicsReqs' = Settle(topicsReqs, call)
    /\ IF ok
       THEN /\ topics' = <<toTopicItem(CreatedTopic(call))>> \o topics
            /\ error' = error
       ELSE /\ topics' = topics
            /\ error' = ErrorMessage
    /\ loading' = FALSE
    /\ lastStep' = [op |-> "addTopicDone", ok |-> ok]
    /\ UNCHANGED <<groupSaveReqs, groupError, contentViewMode>>
    /\ UNCHANGED <<isAuthenticated, authReq, groups, selectedGroupId,
                   selectedTopicUuid, creatingGroup, news, groupsReqs,
                   feedReqs, bookmarkReqs, serverBookmarks>>

\* TopicForm.saveTopic up to its await, or to its early return: the form
\* edits the i-th topic.
saveTopic(i, topicName, queries) ==
    /\ Accepting
    /\ ~loading
    /\ i \in DOMAIN topics
    /\ LET normalized == normalizedQueries(topicName, queries)
       IN  IF Len(normalized) = 0
           THEN /\ lastStep' = [op |-> "saveTopic", ok |-> FALSE,
                                input |-> <<topicName>> \o queries]
                /\ UNCHANGED <<error, loading, topicsReqs>>
           ELSE /\ error' = NoError
                /\ loading' = TRUE
                /\ topicsReqs' = Issue(topicsReqs,
                       [handler |-> "saveTopic", uuid |-> topics[i].uuid,
                        queries |-> normalized])
                /\ lastStep' = [op |-> "saveTopic", ok |-> TRUE]
    /\ UNCHANGED <<groupSaveReqs, groupError, contentViewMode>>
    /\ UNCHANGED <<isAuthenticated, authReq, groups, selectedGroupId,
                   selectedTopicUuid, topics, creatingGroup, news, groupsReqs,
                   feedReqs, bookmarkReqs, serverBookmarks>>

\* Variant: the updated topic moves to the front of the list.
saveTopicDoneMovesFirst(call, ok) ==
    /\ BagIn(call, topicsReqs)
    /\ call.handler = "saveTopic"
    /\ topicsReqs' = Settle(topicsReqs, call)
    /\ IF ok
       THEN /\ topics' =
                   [k \in DOMAIN SelectSeq(topics,
                                     LAMBDA item : item.uuid = call.uuid) |->
                       toTopicItem(UpdatedTopic(call,
                           SelectSeq(topics,
                               LAMBDA item : item.uuid = call.uuid)[k]))]
                   \o SelectSeq(topics, LAMBDA item : item.uuid # call.uuid)
            /\ error' = error
       ELSE /\ topics' = topics
            /\ error' = ErrorMessage
    /\ loading' = FALSE
    /\ lastStep' = [op |-> "saveTopicDone", ok |-> ok]
    /\ UNCHANGED <<groupSaveReqs, groupError, contentViewMode>>
    /\ UNCHANGED <<isAuthenticated, authReq, groups, selectedGroupId,
                   selectedTopicUuid, creatingGroup, news, groupsReqs,
                   feedReqs, bookmarkReqs, serverBookmarks>>

\* TopicForm.saveTopic after its await.
saveTopicDone(call, ok) ==
    /\ BagIn(call, topicsReqs)
    /\ call.handler = "saveTopic"
    /\ topicsReqs' = Settle(topicsReqs, call)
    /\ IF ok
       THEN /\ topics' = [k \in DOMAIN topics |->
                              IF topics[k].uuid = call.uuid
                              THEN toTopicItem(UpdatedTopic(call, topics[k]))
                              ELSE topics[k]]
            /\ error' = error
       ELSE /\ topics' = topics
            /\ error' = ErrorMessage
    /\ loading' = FALSE
    /\ lastStep' = [op |-> "saveTopicDone", ok |-> ok]
    /\ UNCHANGED <<groupSaveReqs, groupError, contentViewMode>>
    /\ UNCHANGED <<isAuthenticated, authReq, groups, selectedGroupId,
                   selectedTopicUuid, creatingGroup, news, groupsReqs,
                   feedReqs, bookmarkReqs, serverBookmarks>>

\* Topics.removeTopic up to its await.
removeTopic(i) ==
    /\ Accepting
    /\ i \in DOMAIN topics
    /\ error' = NoError
    /\ topicsReqs' = Issue(topicsReqs,
           [handler |-> "removeTopic", uuid |-> topics[i].uuid])
    /\ lastStep' = [op |-> "removeTopic", ok |-> TRUE]
    /\ UNCHANGED <<groupSaveReqs, groupError, contentViewMode>>
    /\ UNCHANGED <<isAuthenticated, authReq, groups, selectedGroupId,
                   selectedTopicUuid, topics, creatingGroup, news, loading,
                   groupsReqs, feedReqs, bookmarkReqs, serverBookmarks>>

\* Topics.removeTopic after its await.
removeTopicDone(call, ok) ==
    /\ BagIn(call, topicsReqs)
    /\ call.handler = "removeTopic"
    /\ topicsReqs' = Settle(topicsReqs, call)
    /\ IF ok
       THEN /\ topics' = SelectSeq(topics,
                             LAMBDA item : item.uuid # call.uuid)
            /\ error' = error
       ELSE /\ topics' = topics
            /\ error' = ErrorMessage
    /\ lastStep' = [op |-> "removeTopicDone", ok |-> ok]
    /\ UNCHANGED <<groupSaveReqs, groupError, contentViewMode>>
    /\ UNCHANGED <<isAuthenticated, authReq, groups, selectedGroupId,
                   selectedTopicUuid, creatingGroup, news, loading,
                   groupsReqs, feedReqs, bookmarkReqs, serverBookmarks>>

\* Topics.toggleStatus up to its await.
toggleStatus(i) ==
    /\ Accepting
    /\ i \in DOMAIN topics
    /\ LET topic == topics[i]
           nextValue == ~topic.isActive
       IN  /\ topics' = SetActive(topics, topic.uuid, nextValue)
           /\ topicsReqs' = Issue(topicsReqs,
                  [handler |-> "toggleStatus", uuid |-> topic.uuid,
                   isActive |-> topic.isActive])
    /\ lastStep' = [op |-> "toggleStatus", ok |-> TRUE]
    /\ UNCHANGED <<groupSaveReqs, groupError, contentViewMode>>
    /\ UNCHANGED <<isAuthenticated, authReq, groups, selectedGroupId,
                   selectedTopicUuid, creatingGroup, news, loading, error,
                   groupsReqs, feedReqs, bookmarkReqs, serverBookmarks>>

\* Topics.toggleStatus after its await.
toggleStatusDone(call, ok) ==
    /\ BagIn(call, topicsReqs)
    /\ call.handler = "toggleStatus"
    /\ topicsReqs' = Settle(topicsReqs, call)
    /\ IF ok
       THEN UNCHANGED <<topics, error>>
       ELSE /\ topics' = SetActive(topics, call.uuid, call.isActive)
            /\ error' = ErrorMessage
    /\ lastStep' = [op |-> "toggleStatusDone", ok |-> ok]
    /\ UNCHANGED <<groupSaveReqs, groupError, contentViewMode>>
    /\ UNCHANGED <<isAuthenticated, authReq, groups, selectedGroupId,
                   selectedTopicUuid, creatingGroup, news, loading,
                   groupsReqs, feedReqs, bookmarkReqs, serverBookmarks>>

TopicsNext ==
    \/ \E topicName \in Texts, queries \in QueryFields :
          addTopic(topicName, queries)
    \/ \E call \in BagToSet(topicsReqs), ok \in BOOLEAN : addTopicDone(call, ok)
    \/ \E i \in DOMAIN topics, topicName \in Texts, queries \in QueryFields :
          saveTopic(i, topicName, queries)
    \/ \E call \in BagToSet(topicsReqs), ok \in BOOLEAN : saveTopicDone(call, ok)
    \/ \E i \in DOMAIN topics : removeTopic(i)
    \/ \E call \in BagToSet(topicsReqs), ok \in BOOLEAN :
          removeTopicDone(call, ok)
    \/ \E i \in DOMAIN topics : toggleStatus(i)
    \/ \E call \in BagToSet(topicsReqs), ok \in BOOLEAN :
          toggleStatusDone(call, ok)

TopicsSpec == TopicsInit /\ [][TopicsNext]_vars

(***************************************************************************)
(* The group editor of the dashboard on its own: a signed-in user selects  *)
(* groups and saves edits of the selected one.                              *)
(***************************************************************************)
NameRequired == "Topic group name is required."

\* The groups loaded, with their names.
NamedGroups ==
    << [uuid |-> "g1", is_public |-> FALSE, name |-> <<"b">>],
       [uuid |-> "g2", is_public |-> TRUE, name |-> <<"b">>] >>

GroupEditInit ==
    /\ isAuthenticated = "true"
    /\ authReq = FALSE
    /\ groups = NamedGroups
    /\ selectedGroupId = Repair(groups, isAuthenticated, "")
    /\ selectedTopicUuid = ""
    /\ topics = [k \in DOMAIN ServerTopics |-> toTopicItem(ServerTopics[k])]
    /\ creatingGroup = FALSE
    /\ news = << >>
    /\ loading = FALSE
    /\ error = NoError
    /\ groupsReqs = 0
    /\ topicsReqs = EmptyBag
    /\ feedReqs = EmptyBag
    /\ bookmarkReqs = EmptyBag
    /\ serverBookmarks = {}
    /\ groupSaveReqs = EmptyBag
    /\ groupError = NoError
    /\ contentViewMode = "read"
    /\ lastStep = [op |-> "Init", ok |-> TRUE]

\* handleSaveGroup up to its await, or to an early return; the save button
\* is disabled while groupSaving.
handleSaveGroup(groupName, groupIsPublic) ==
    /\ Accepting
    /\ groupSaveReqs = EmptyBag
    /\ HasGroup(groups, selectedGroupId)
    /\ isAuthenticated = "true"
    /\ LET trimmedName == Trim(groupName)
       IN  IF trimmedName = << >>
           THEN /\ groupError' = NameRequired
                /\ groupSaveReqs' = groupSaveReqs
                /\ lastStep' = [op |-> "handleSaveGroup", ok |-> FALSE]
           ELSE /\ groupError' = NoError
                /\ groupSaveReqs' = Issue(groupSaveReqs,
                       [uuid |-> selectedGroupId, name |-> trimmedName,
                        isPublic |-> groupIsPublic])
                /\ lastStep' = [op |-> "handleSaveGroup", ok |-> TRUE]
    /\ UNCHANGED <<contentViewMode, isAuthenticated, authReq, groups, selectedGroupId,
                   selectedTopicUuid, topics, creatingGroup, news, loading,
                   error, groupsReqs, topicsReqs, feedReqs, bookmarkReqs,
                   serverBookmarks>>

\* Variant: the entry of the group selected when the response arrives is
\* the one rewritten.
handleSaveGroupDoneCurrent(call, ok) ==
    /\ BagIn(call, groupSaveReqs)
    /\ groupSaveReqs' = Settle(groupSaveReqs, call)
    /\ IF ok
       THEN /\ Render([Rendered EXCEPT !.groups =
                          [k \in DOMAIN groups |->
                              IF groups[k].uuid = selectedGroupId
                              THEN [groups[k] EXCEPT
                                       !.name = call.name,
                                       !.is_public = call.isPublic]
                              ELSE groups[k]]],
                      {"groups"})
            /\ groupError' = groupError
       ELSE /\ Render(Rendered, {})
            /\ groupError' = ErrorMessage
    /\ lastStep' = [op |-> "handleSaveGroupDone", ok |-> ok, call |-> call]
    /\ UNCHANGED <<authReq, creatingGroup, bookmarkReqs, serverBookmarks,
                   contentViewMode>>

\* handleSaveGroup after its await.
handleSaveGroupDone(call, ok) ==
    /\ BagIn(call, groupSaveReqs)
    /\ groupSaveReqs' = Settle(groupSaveReqs, call)
    /\ IF ok
       THEN /\ Render([Rendered EXCEPT !.groups =
                          [k \in DOMAIN groups |->
                              IF groups[k].uuid = call.uuid
                              THEN [groups[k] EXCEPT
                                       !.name = call.name,
                                       !.is_public = call.isPublic]
                              ELSE groups[k]]],
                      {"groups"})
            /\ groupError' = groupError
       ELSE /\ Render(Rendered, {})
            /\ groupError' = ErrorMessage
    /\ lastStep' = [op |-> "handleSaveGroupDone", ok |-> ok, call |-> call]
    /\ UNCHANGED <<authReq, creatingGroup, bookmarkReqs, serverBookmarks,
                   contentViewMode>>

GroupEditNext ==
    \/ \E groupName \in Texts, groupIsPublic \in BOOLEAN :
          handleSaveGroup(groupName, groupIsPublic)
    \/ \E call \in BagToSet(groupSaveReqs), ok \in BOOLEAN :
          handleSaveGroupDone(call, ok)
    \/ \E id \in GroupIds : SelectGroup(id)
    \/ \E call \in BagToSet(feedReqs), ok \in BOOLEAN : LoadFeedDone(call, ok)

GroupEditSpec == GroupEditInit /\ [][GroupEditNext]_vars

(***************************************************************************)
(* ContentFullDetail: a signed-in user opens the full page of an item and  *)
(* comes back to the Dashboard.                                            *)
(***************************************************************************)
\* Every dependency of the effects: a page that mounts runs each of them.
AllDependencies ==
    {"isAuthenticated", "groups", "selectedGroupId", "selectedTopicUuid", "topics"}

\* handleBack, for the item getContentDetail returned: the topic of the item
\* becomes the selected topic and, when that topic is among the loaded
\* topics and has a group, its group the selected group (the writes the
\* page's effect on [item, topics] made when the item arrived); navigate('/')
\* then mounts the Dashboard, whose effects and Layout's run.
handleBack(item) ==
    /\ Accepting
    /\ isAuthenticated = "true"
    /\ LET match == SelectSeq(topics, LAMBDA topic : topic.uuid = item.topic_uuid)
       IN  Render([Rendered EXCEPT
                      !.selectedTopicUuid = item.topic_uuid,
                      !.selectedGroupId =
                          IF Len(match) > 0 /\ match[1].groupUuid # ""
                          THEN match[1].groupUuid
                          ELSE selectedGroupId],
                  AllDependencies)
    /\ lastStep' = [op |-> "handleBack", ok |-> TRUE]
    /\ UNCHANGED <<groupSaveReqs, groupError, contentViewMode>>
    /\ UNCHANGED <<authReq, creatingGroup, bookmarkReqs, serverBookmarks>>

DetailNext ==
    \/ \E ok \in BOOLEAN : RefreshAuthDone(ok)
    \/ SignOut
    \/ \E ok \in BOOLEAN, response \in ServerGroupLists :
          LoadGroupsDone(ok, response)
    \/ \E call \in BagToSet(topicsReqs), ok \in BOOLEAN : LoadTopicsDone(call, ok)
    \/ \E id \in GroupIds : SelectGroup(id)
    \/ \E k \in DOMAIN ServerItems : handleBack(ServerItems[k])
    \/ \E call \in BagToSet(feedReqs), ok \in BOOLEAN : LoadFeedDone(call, ok)

DetailSpec == Init /\ [][DetailNext]_vars

(***************************************************************************)
(* Dashboard.mapNewsItem on its own: the source label and the relevance    *)
(* score of the view item, for every raw item drawn below.                 *)
(***************************************************************************)
\* The largest relevance score drawn, in whole units.
MaxScore == 100

\* A score is null, NaN or a number; a number is kept in hundredths, which
\* a double multiplies by 100 and rounds without error: the product of a
\* multiple of 0.01 and 100 is within one ulp of an integer.
ScoreValues ==
    (-150 .. 250) \cup {100 * k + r : k \in 0..MaxScore, r \in {0, 49, 50}}
Scores ==
    [kind : {"null", "NaN"}, hundredths : {0}]
        \cup [kind : {"number"}, hundredths : ScoreValues]

\* Math.round of num/100: the nearest integer, a tie going up.
Round(num) == (num + 50) \div 100

\* Variant: the score is never taken as a fraction.
normalizeScoreUnscaled(score) ==
    IF score.kind # "number" THEN 0
    ELSE Round(score.hundredths)

normalizeScore(score) ==
    IF score.kind # "number" THEN 0
    ELSE IF score.hundredths <= 100 THEN Round(score.hundredths * 100)
    ELSE Round(score.hundredths)

\* A URL text is the sequence of its parts; new URL(text) accepts the texts
\* below that start with a scheme followed by a host, and throws on the
\* others.
HostParts == {"www.", "example.com"}
Urls ==
    { << >>,
      <<"example.com">>,
      <<"www.", "example.com", "/a/b">>,
      <<"https://", "example.com">>,
      <<"https://", "www.", "example.com", "/a/b">>,
      <<"https://", "www.", "www.", "example.com">> }
UrlParses(url) == Len(url) >= 2 /\ url[1] = "https://" /\ url[2] \in HostParts

\* new URL(url).hostname: the parts between the scheme and the path.
RECURSIVE HostPrefix(_)
HostPrefix(parts) ==
    IF parts # << >> /\ Head(parts) \in HostParts
    THEN <<Head(parts)>> \o HostPrefix(Tail(parts))
    ELSE << >>
hostname(url) == HostPrefix(Tail(url))

\* replace(/^www\./, ""): one leading "www." goes.
StripWww(host) ==
    IF host # << >> /\ Head(host) = "www." THEN Tail(host) ELSE host

\* The raw source field: empty (or null), or a name.
Sources == { << >>, <<"Reuters">> }
Unknown == <<"Unknown">>

\* getSourceLabel of the Dashboard of part_010 (and of part_012:87).
getSourceLabel(item) ==
    IF UrlParses(item.url) THEN StripWww(hostname(item.url))
    ELSE IF item.source # << >> THEN item.source ELSE Unknown

\* getSourceLabel of the Dashboard of part_012:758.
getSourceLabelSourceFirst(item) ==
    IF item.source # << >> THEN item.source
    ELSE IF UrlParses(item.url) THEN StripWww(hostname(item.url))
    ELSE Unknown

\* A date text is empty (absent), or the sequence of its characters; Date
\* parsing accepts the texts made of one digit and gives an invalid date for
\* the others.  A date is valid or not, and a valid date has a time.
DateTexts == { << >>, <<"x">>, <<"1">>, <<"2">> }
DigitValue == [c \in {"1", "2"} |-> IF c = "1" THEN 1 ELSE 2]
InvalidDate == [valid |-> FALSE, time |-> 0]
\* new Date(text)
NewDate(text) ==
    IF Len(text) = 1 /\ text[1] \in DOMAIN DigitValue
    THEN [valid |-> TRUE, time |-> DigitValue[text[1]]]
    ELSE InvalidDate
\* new Date(): the time of the call, later than every date drawn.
Now == [valid |-> TRUE, time |-> 3]

\* mapNewsItem: timestamp and safeTimestamp.
safeTimestamp(item) ==
    LET timestamp == NewDate(IF item.published_at # << >>
                             THEN item.published_at ELSE item.created_at)
    IN  IF ~timestamp.valid THEN Now ELSE timestamp

\* The raw items drawn: every URL, source and pair of dates with a null
\* score, and every score with one URL, source and pair of dates.
RawItems ==
    [url : Urls, source : Sources,
     relevance_score : {[kind |-> "null", hundredths |-> 0]},
     published_at : DateTexts, created_at : DateTexts]
        \cup
    [url : {<<"https://", "example.com">>}, source : {<< >>},
     relevance_score : Scores,
     published_at : {<< >>}, created_at : {<<"1">>}]

MapInit ==
    /\ lastStep \in [op : {"Init"}, item : RawItems]
    /\ news = << >>
    /\ isAuthenticated = "true"
    /\ authReq = FALSE
    /\ groups = << >>
    /\ selectedGroupId = ""
    /\ selectedTopicUuid = ""
    /\ topics = << >>
    /\ creatingGroup = FALSE
    /\ loading = FALSE
    /\ error = NoError
    /\ groupsReqs = 0
    /\ topicsReqs = EmptyBag
    /\ feedReqs = EmptyBag
    /\ bookmarkReqs = EmptyBag
    /\ serverBookmarks = {}
    /\ groupSaveReqs = EmptyBag
    /\ groupError = NoError
    /\ contentViewMode = "read"

\* mapNewsItem of the Dashboard of part_010 on the raw item.
MapItem ==
    /\ lastStep.op = "Init"
    /\ news' = << [source |-> getSourceLabel(lastStep.item),
                   timestamp |-> safeTimestamp(lastStep.item),
                   relevanceScore |->
                       normalizeScore(lastStep.item.relevance_score)] >>
    /\ lastStep' = [op |-> "mapNewsItem", item |-> lastStep.item]
    /\ UNCHANGED <<isAuthenticated, authReq, groups, selectedGroupId,
                   selectedTopicUuid, topics, creatingGroup, loading, error,
                   groupsReqs, topicsReqs, feedReqs, bookmarkReqs,
                   serverBookmarks, groupSaveReqs, groupError, contentViewMode>>

\* mapNewsItem of the Dashboard of part_012:758 on the raw item.
MapItemSourceFirst ==
    /\ lastStep.op = "Init"
    /\ news' = << [source |-> getSourceLabelSourceFirst(lastStep.item),
                   timestamp |-> safeTimestamp(lastStep.item),
                   relevanceScore |->
                       normalizeScore(lastStep.item.relevance_score)] >>
    /\ lastStep' = [op |-> "mapNewsItem", item |-> lastStep.item]
    /\ UNCHANGED <<isAuthenticated, authReq, groups, selectedGroupId,
                   selectedTopicUuid, topics, creatingGroup, loading, error,
                   groupsReqs, topicsReqs, feedReqs, bookmarkReqs,
                   serverBookmarks, groupSaveReqs, groupError, contentViewMode>>

MapNext == MapItem \/ MapItemSourceFirst

MapSpec == MapInit /\ [][MapNext]_vars

(***************************************************************************)
(* The Dashboard of part_012:27 on its own: its loadFeed, for every        *)
(* selection of a signed-in user.  Its calls name the function of lib/api  *)
(* they go through.                                                        *)
(***************************************************************************)
RECURSIVE SubSeqs(_)
SubSeqs(seq) ==
    IF seq = << >> THEN {<< >>}
    ELSE LET rest == SubSeqs(Tail(seq))
         IN  rest \cup {<<Head(seq)>> \o r : r \in rest}

\* What listContentByGroup may answer: lib/api.ts does not define it, so any
\* selection of the backend's items.
ContentByGroupResponses == SubSeqs(ListContentFeed(""))

GroupFeedInit ==
    /\ isAuthenticated = "true"
    /\ authReq = FALSE
    /\ groups \in ServerGroupLists
    /\ selectedGroupId \in Uuids(groups) \cup {""}
    /\ selectedTopicUuid \in {"", "t1", "t2"}
    /\ topics \in {<< >>, [k \in DOMAIN ServerTopics |-> toTopicItem(ServerTopics[k])]}
    /\ creatingGroup = FALSE
    /\ news = << >>
    /\ loading = FALSE
    /\ error = NoError
    /\ groupsReqs = 0
    /\ topicsReqs = EmptyBag
    /\ feedReqs = EmptyBag
    /\ bookmarkReqs = EmptyBag
    /\ serverBookmarks = {}
    /\ groupSaveReqs = EmptyBag
    /\ groupError = NoError
    /\ contentViewMode = "read"
    /\ lastStep = [op |-> "Init", ok |-> TRUE]

\* loadFeed of part_012:143 up to its await.
loadFeedByGroup ==
    /\ Accepting
    /\ loading' = TRUE
    /\ error' = NoError
    /\ feedReqs' = Issue(feedReqs,
           [request |-> IF selectedTopicUuid = "" /\ selectedGroupId # ""
                        THEN "listContentByGroup" ELSE "listContentFeed",
            topicUuid |-> selectedTopicUuid,
            groupId |-> selectedGroupId])
    /\ lastStep' = [op |-> "loadFeed", ok |-> TRUE]
    /\ UNCHANGED <<isAuthenticated, authReq, groups, selectedGroupId,
                   selectedTopicUuid, topics, creatingGroup, news, groupsReqs,
                   topicsReqs, bookmarkReqs, serverBookmarks, groupSaveReqs,
                   groupError, contentViewMode>>

\* loadFeed of part_012:143 after its await: the whole response is mapped.
loadFeedByGroupDone(call, ok, response) ==
    /\ BagIn(call, feedReqs)
    /\ feedReqs' = Settle(feedReqs, call)
    /\ IF call.request = "listContentByGroup"
       THEN response \in ContentByGroupResponses
       ELSE response = ListContentFeed(call.topicUuid)
    /\ IF ok
       THEN /\ news' = [i \in DOMAIN response |-> mapNewsItem(response[i])]
            /\ error' = error
       ELSE /\ error' = ErrorMessage
            /\ news' = << >>
    /\ loading' = FALSE
    /\ lastStep' = [op |-> "loadFeedDone", ok |-> ok]
    /\ UNCHANGED <<isAuthenticated, authReq, groups, selectedGroupId,
                   selectedTopicUuid, topics, creatingGroup, groupsReqs,
                   topicsReqs, bookmarkReqs, serverBookmarks, groupSaveReqs,
                   groupError, contentViewMode>>

GroupFeedNext ==
    \/ loadFeedByGroup
    \/ \E call \in BagToSet(feedReqs), ok \in BOOLEAN,
          response \in ContentByGroupResponses :
          loadFeedByGroupDone(call, ok, response)

GroupFeedSpec == GroupFeedInit /\ [][GroupFeedNext]_vars

(***************************************************************************)
(* The bookmark toggles on their own: the full feed is loaded and shows    *)
(* the backend's flags, and no load is in flight.                          *)
(***************************************************************************)
BookmarkInit ==
    /\ serverBookmarks \in SUBSET ItemIds
    /\ news = LoadFeedItems([topicUuid |-> "", groupId |-> "", topics |-> << >>],
                            ListContentFeed(""))
    /\ isAuthenticated = "true"
    /\ authReq = FALSE
    /\ groups = << >>
    /\ selectedGroupId = ""
    /\ selectedTopicUuid = ""
    /\ topics = << >>
    /\ creatingGroup = FALSE
    /\ loading = FALSE
    /\ error = NoError
    /\ groupsReqs = 0
    /\ topicsReqs = EmptyBag
    /\ feedReqs = EmptyBag
    /\ bookmarkReqs = EmptyBag
    /\ groupSaveReqs = EmptyBag
    /\ groupError = NoError
    /\ contentViewMode = "read"
    /\ lastStep = [op |-> "Init", ok |-> TRUE]

BookmarkNext ==
    \/ \E i \in DOMAIN news : ToggleBookmark(i)
    \/ \E call \in BagToSet(bookmarkReqs), ok \in BOOLEAN :
          ToggleBookmarkDone(call, ok)

BookmarkSpec == BookmarkInit /\ [][BookmarkNext]_vars

(***************************************************************************)
(* The Dashboard and the detail page, every feed request being answered:   *)
(* a listContentFeed call in flight resolves or rejects in the end.        *)
(***************************************************************************)
FeedAnswered ==
    \E call \in BagToSet(feedReqs), ok \in BOOLEAN : LoadFeedDone(call, ok)

LiveDetailSpec == DetailSpec /\ WF_vars(FeedAnswered)

(***************************************************************************)
(* The Dashboard's view mode, with the user signing in and out.            *)
(***************************************************************************)
\* Variant: a switch to edit is accepted from anyone.
handleViewModeChangeUnguarded(mode) ==
    /\ Accepting
    /\ mode # contentViewMode
    /\ contentViewMode' = mode
    /\ lastStep' = [op |-> "handleViewModeChange", ok |-> TRUE]
    /\ UNCHANGED <<isAuthenticated, authReq, groups, selectedGroupId,
                   selectedTopicUuid, topics, creatingGroup, news, loading,
                   error, groupsReqs, topicsReqs, feedReqs, bookmarkReqs,
                   serverBookmarks, groupSaveReqs, groupError>>

\* handleViewModeChange: ok is false when the switch is refused and the
\* auth dialog opens; the view-mode effect finds nothing to reset.
handleViewModeChange(mode) ==
    /\ Accepting
    /\ mode # contentViewMode
    /\ IF mode = "edit" /\ isAuthenticated # "true"
       THEN /\ contentViewMode' = contentViewMode
            /\ lastStep' = [op |-> "handleViewModeChange", ok |-> FALSE]
       ELSE /\ contentViewMode' = ViewModeEffect(isAuthenticated, mode)
            /\ lastStep' = [op |-> "handleViewModeChange", ok |-> TRUE]
    /\ UNCHANGED <<isAuthenticated, authReq, groups, selectedGroupId,
                   selectedTopicUuid, topics, creatingGroup, news, loading,
                   error, groupsReqs, topicsReqs, feedReqs, bookmarkReqs,
                   serverBookmarks, groupSaveReqs, groupError>>

ViewModeNext ==
    \/ \E ok \in BOOLEAN : RefreshAuthDone(ok)
    \/ SignOut
    \/ \E mode \in {"read", "edit"} : handleViewModeChange(mode)
    \/ \E ok \in BOOLEAN, response \in ServerGroupLists :
          LoadGroupsDone(ok, response)
    \/ \E call \in BagToSet(topicsReqs), ok \in BOOLEAN : LoadTopicsDone(call, ok)
    \/ \E call \in BagToSet(feedReqs), ok \in BOOLEAN : LoadFeedDone(call, ok)

ViewModeSpec == Init /\ [][ViewModeNext]_vars

(***************************************************************************)
(* Properties.                                                             *)
(***************************************************************************)
ShownIds == {news[i].id : i \in DOMAIN news}

\* The ids a load for the selection and topics now rendered puts on screen.
CurrentFeedIds ==
    LET items == LoadFeedItems(LoadFeedCall(Rendered),
                               ListContentFeed(selectedTopicUuid))
    IN  {items[i].id : i \in DOMAIN items}

\* A feed call made for a selection other than the current one.
IsStale(call) ==
    \/ call.groupId # selectedGroupId
    \/ call.topicUuid # selectedTopicUuid

\* C1: last selection wins.  Once every feed load has resolved, none of them
\* having failed since the latest was issued, a signed-in user sees the items
\* of the current selection, whatever the order the responses arrived in.
LastSelectionWins ==
    (/\ isAuthenticated = "true"
     /\ feedReqs = EmptyBag
     /\ error = NoError)
    => ShownIds = CurrentFeedIds

\* C2: once the authentication state is known, the selection is empty or is
\* the uuid of a group in groups, and of a public one when signed out.
SelectionValid ==
    isAuthenticated # "null" =>
        \/ selectedGroupId = ""
        \/ \E i \in DOMAIN groups :
              /\ groups[i].uuid = selectedGroupId
              /\ (isAuthenticated = "false" => groups[i].is_public)

\* A private group was created and selected after sign-out, and the repair
\* has moved the selection off it.
SelectionValidWitness ==
    /\ lastStep = [op |-> "CreateGroupDone", ok |-> TRUE]
    /\ isAuthenticated = "false"
    /\ \E i \in DOMAIN groups : groups[i].uuid = "g3" /\ ~groups[i].is_public
    /\ selectedGroupId \in Uuids(groups) \ {"g3"}

\* C3: when a bookmark request rejects, the entry with the toggled item's id
\* gets back the flag it had before the toggle, every other entry is left as
\* it is, and error is set.
BookmarkRollback ==
    [][\A call \in BagToSet(bookmarkReqs) :
          ToggleBookmarkDone(call, FALSE) =>
              /\ Len(news') = Len(news)
              /\ \A k \in DOMAIN news :
                    IF news[k].id = call.item.id
                    THEN /\ news'[k].id = news[k].id
                         /\ news'[k].isBookmarked = call.item.isBookmarked
                    ELSE news'[k] = news[k]
              /\ error' # NoError]_vars

\* A bookmark request has rejected with both items on screen: the toggled
\* one shows what the backend holds again.
BookmarkRollbackWitness ==
    /\ lastStep.op = "ToggleBookmarkDone"
    /\ ~lastStep.ok
    /\ Len(news) = 2
    /\ bookmarkReqs = EmptyBag
    /\ \A k \in DOMAIN news :
          news[k].isBookmarked = (news[k].id \in serverBookmarks)
    /\ error = ErrorMessage

\* C4: a signed-out user sees no items, also when a feed request issued
\* while signed in resolves after the sign-out.
SignedOutSeesNothing ==
    isAuthenticated = "false" => news = << >>

\* What the repair is to compute: the groups a selection may name.
Candidates(gs, auth) ==
    {i \in DOMAIN gs : auth = "true" \/ gs[i].is_public}

NextGroupId(gs, auth, prev) ==
    LET c == Candidates(gs, auth)
    IN  IF \E i \in c : gs[i].uuid = prev THEN prev
        ELSE IF c = {} THEN ""
        ELSE gs[CHOOSE i \in c : \A j \in c : i <= j].uuid

\* C5: with the authentication state known, the repair keeps a selection
\* that names a candidate group, selects nothing when there is no
\* candidate, and the first candidate in list order otherwise.
RepairComputesNext ==
    (lastStep.op = "Repair" /\ isAuthenticated # "null")
    => selectedGroupId = NextGroupId(groups, isAuthenticated, lastStep.prev)

\* Signed out with a private g1 before a public g2 and g1 selected: the
\* repair has selected g2.
RepairComputesNextWitness ==
    /\ lastStep = [op |-> "Repair", prev |-> "g1"]
    /\ isAuthenticated = "false"
    /\ groups = << [uuid |-> "g1", is_public |-> FALSE],
                   [uuid |-> "g2", is_public |-> TRUE] >>
    /\ selectedGroupId = "g2"

\* C6: the repair is idempotent: run on its own result, with the same
\* groups and authentication state, it selects what is selected.
RepairIdempotent ==
    lastStep.op = "Repair"
    => Repair(groups, isAuthenticated, selectedGroupId) = selectedGroupId

\* The repair has changed the selection of a signed-out user to a group
\* that is not the first of the list.
RepairIdempotentWitness ==
    /\ lastStep.op = "Repair"
    /\ isAuthenticated = "false"
    /\ lastStep.prev # selectedGroupId
    /\ Len(groups) = 2
    /\ selectedGroupId = groups[2].uuid

\* C7: while the authentication state is not known, the repair leaves the
\* selection as it is, whatever the groups and the selection.
RepairDefersWhileUnknown ==
    (lastStep.op = "Repair" /\ isAuthenticated = "null")
    => selectedGroupId = lastStep.prev

\* The repair has run with the authentication state unknown on a selection
\* that names none of the groups, one of which is public.
RepairDefersWhileUnknownWitness ==
    /\ lastStep.op = "Repair"
    /\ isAuthenticated = "null"
    /\ \E i \in DOMAIN groups : groups[i].is_public
    /\ selectedGroupId \notin Uuids(groups)
    /\ selectedGroupId # ""

\* C8: a feed response for a selection that is no longer the current one,
\* arriving when no load for the current selection is pending, changes
\* neither the items nor the error, whether it resolves or rejects.
StaleLoadChangesNothing ==
    [][\A call \in BagToSet(feedReqs), ok \in BOOLEAN :
          (/\ LoadFeedDone(call, ok)
           /\ IsStale(call)
           /\ \A other \in BagToSet(feedReqs) : IsStale(other))
          => (news' = news /\ error' = error)]_vars

\* C9: when a feed request rejects, error is set, the items are emptied,
\* loading is cleared and no request is issued in its place.
FeedRejectHandled ==
    [][\A call \in BagToSet(feedReqs) :
          LoadFeedDone(call, FALSE) =>
              /\ error' # NoError
              /\ news' = << >>
              /\ loading' = FALSE
              /\ feedReqs' = Settle(feedReqs, call)
              /\ UNCHANGED <<groupsReqs, topicsReqs, bookmarkReqs>>]_vars

\* A feed request has rejected after an earlier one had put items on
\* screen and a bookmark had been stored: the screen is empty.
FeedRejectHandledWitness ==
    /\ lastStep = [op |-> "LoadFeedDone", ok |-> FALSE]
    /\ isAuthenticated = "true"
    /\ serverBookmarks # {}
    /\ news = << >>
    /\ error = ErrorMessage
    /\ ~loading

\* C10: toggleBookmark flips the flag of the item in the items before any
\* response, the backend still holding the old value, and issues
\* createBookmark when the new value is true, deleteBookmark when false.
OptimisticToggle ==
    [][\A i \in DOMAIN news :
          ToggleBookmark(i) =>
              /\ Len(news') = Len(news)
              /\ \A k \in DOMAIN news :
                    IF news[k].id = news[i].id
                    THEN news'[k].isBookmarked = ~news[i].isBookmarked
                    ELSE news'[k] = news[k]
              /\ serverBookmarks' = serverBookmarks
              /\ \E call \in BagToSet(bookmarkReqs') :
                    /\ bookmarkReqs' = Issue(bookmarkReqs, call)
                    /\ call.item.id = news[i].id
                    /\ call.request = IF news[i].isBookmarked
                                      THEN "deleteBookmark"
                                      ELSE "createBookmark"]_vars

\* A stored bookmark has just been toggled off: the item shows no
\* bookmark, the backend still holds it, and deleteBookmark is in flight.
OptimisticToggleWitness ==
    /\ lastStep = [op |-> "ToggleBookmark", ok |-> TRUE]
    /\ \E k \in DOMAIN news :
          /\ ~news[k].isBookmarked
          /\ news[k].id \in serverBookmarks
          /\ \E call \in BagToSet(bookmarkReqs) :
                /\ call.item.id = news[k].id
                /\ call.request = "deleteBookmark"


\* C11: when a bookmark request rejects and no entry of the items has the
\* toggled item's id any more, the rollback leaves the items as they are:
\* nothing added, removed or modified.
RollbackOfMissingItem ==
    [][\A call \in BagToSet(bookmarkReqs) :
          (/\ ToggleBookmarkDone(call, FALSE)
           /\ call.item.id \notin ShownIds)
          => news' = news]_vars

\* A bookmark request for an item has rejected after a reload for another
\* selection left only the other item on screen.
RollbackOfMissingItemWitness ==
    /\ lastStep.op = "ToggleBookmarkDone"
    /\ ~lastStep.ok
    /\ news # << >>
    /\ lastStep.call.item.id \notin ShownIds
    /\ error = ErrorMessage

\* The calls in flight besides call that toggled the same item.
Overlapping(call) ==
    {other \in BagToSet(Settle(bookmarkReqs, call)) :
        other.item.id = call.item.id}

\* C12: two toggles of one item overlap without queueing, and a call that
\* rejects while the other is pending, or after the other has changed the
\* flag, sets the flag to the value that call saw before its own flip; the
\* other call stays in flight.
OverlappingToggles ==
    [][\A call \in BagToSet(bookmarkReqs) :
          (/\ ToggleBookmarkDone(call, FALSE)
           /\ \/ Overlapping(call) # {}
              \/ \E k \in DOMAIN news :
                    /\ news[k].id = call.item.id
                    /\ news[k].isBookmarked # call.nextValue)
          => /\ \A k \in DOMAIN news :
                   news[k].id = call.item.id
                   => news'[k].isBookmarked = call.item.isBookmarked
             /\ \A other \in Overlapping(call) :
                   CopiesIn(other, bookmarkReqs') >= 1]_vars

\* The second of two overlapping toggles of an item on screen saw the flag
\* set; the first toggle, which saw it clear, has rejected while the second
\* is pending, and the flag is clear.
OverlappingTogglesWitness ==
    /\ lastStep.op = "ToggleBookmarkDone"
    /\ ~lastStep.ok
    /\ ~lastStep.call.item.isBookmarked
    /\ \E other \in BagToSet(bookmarkReqs) :
          /\ other.item.id = lastStep.call.item.id
          /\ other.item.isBookmarked
    /\ \E k \in DOMAIN news :
          /\ news[k].id = lastStep.call.item.id
          /\ ~news[k].isBookmarked


\* A step that puts a call on /api/topics in flight.
IssuesTopicCall == BagCardinality(topicsReqs') > BagCardinality(topicsReqs)

\* The call rejects in this step.
TopicCallFails(call) ==
    \/ addTopicDone(call, FALSE)
    \/ saveTopicDone(call, FALSE)
    \/ removeTopicDone(call, FALSE)
    \/ toggleStatusDone(call, FALSE)

\* C13 as stated: no topic operation writes the topics before its backend
\* call has succeeded, and a call that rejects leaves the topics as they
\* are and sets the error.
NoOptimisticTopicWrite ==
    [][/\ IssuesTopicCall => topics' = topics
       /\ \A call \in BagToSet(topicsReqs) :
             TopicCallFails(call) => (topics' = topics /\ error' # NoError)]_vars

\* C13, amended: creating, saving and removing a topic leave the topics as
\* they are when the call is issued and when it rejects, the rejection
\* setting the error; toggling the status flips isActive of that topic when
\* the call is issued, and a rejection sets it back to the value the call
\* saw, changes no other topic and sets the error.
TopicWrites ==
    [][/\ (IssuesTopicCall /\ ~\E i \in DOMAIN topics : toggleStatus(i))
             => topics' = topics
       /\ \A i \in DOMAIN topics :
             toggleStatus(i) =>
                 /\ Len(topics') = Len(topics)
                 /\ \A k \in DOMAIN topics :
                       IF topics[k].uuid = topics[i].uuid
                       THEN topics'[k] =
                               [topics[k] EXCEPT !.isActive = ~topics[i].isActive]
                       ELSE topics'[k] = topics[k]
       /\ \A call \in BagToSet(topicsReqs) :
             /\ (\/ addTopicDone(call, FALSE)
                 \/ saveTopicDone(call, FALSE)
                 \/ removeTopicDone(call, FALSE))
                => (topics' = topics /\ error' # NoError)
             /\ toggleStatusDone(call, FALSE) =>
                   /\ Len(topics') = Len(topics)
                   /\ \A k \in DOMAIN topics :
                         IF topics[k].uuid = call.uuid
                         THEN topics'[k] =
                                 [topics[k] EXCEPT !.isActive = call.isActive]
                         ELSE topics'[k] = topics[k]
                   /\ error' # NoError]_vars

\* createTopic has rejected: the two loaded topics are all there is, the
\* error is set and the form is no longer loading.
TopicWritesWitness ==
    /\ lastStep = [op |-> "addTopicDone", ok |-> FALSE]
    /\ TopicUuids(topics) = {"t1", "t2"}
    /\ error = ErrorMessage
    /\ ~loading

\* Every entry of the form is empty or white space.
AllBlank(entries) ==
    \A k \in DOMAIN entries : \A c \in DOMAIN entries[k] : entries[k][c] = " "

\* C18: submitting the form, to create or to save, with no entry that is
\* non-empty after trimming issues no request and leaves the topics as
\* they are.
BlankQueriesRejected ==
    [][\A topicName \in {t \in Texts : AllBlank(<<t>>)},
         queries \in {q \in QueryFields : AllBlank(q)} :
          (\/ addTopic(topicName, queries)
           \/ \E i \in DOMAIN topics : saveTopic(i, topicName, queries))
          => (topicsReqs' = topicsReqs /\ topics' = topics)]_vars

\* The form was submitted to save a topic with a white-space name and a
\* white-space query: nothing is in flight.
BlankQueriesRejectedWitness ==
    /\ lastStep = [op |-> "saveTopic", ok |-> FALSE,
                   input |-> << <<" ">>, <<" ">> >>]
    /\ topicsReqs = EmptyBag
    /\ ~loading


\* C14: saving a group leaves groups as they are until updateTopicGroup has
\* succeeded; the success rewrites the entry with the uuid of the edited
\* group and leaves the order and every other entry; a rejection leaves
\* groups as they are and sets the error of the editor.
GroupEditWrites ==
    [][/\ \A groupName \in Texts, groupIsPublic \in BOOLEAN :
             handleSaveGroup(groupName, groupIsPublic) => groups' = groups
       /\ \A call \in BagToSet(groupSaveReqs) :
             /\ handleSaveGroupDone(call, TRUE) =>
                   /\ Len(groups') = Len(groups)
                   /\ \A k \in DOMAIN groups :
                         IF groups[k].uuid = call.uuid
                         THEN groups'[k] =
                                 [uuid |-> call.uuid, name |-> call.name,
                                  is_public |-> call.isPublic]
                         ELSE groups'[k] = groups[k]
             /\ handleSaveGroupDone(call, FALSE) =>
                   (groups' = groups /\ groupError' # NoError)]_vars

\* An edit of a group has succeeded after the user selected another group:
\* the edited entry has the saved name, and the entry of the group now
\* selected still has the one it was loaded with.
GroupEditWritesWitness ==
    /\ lastStep.op = "handleSaveGroupDone"
    /\ lastStep.ok
    /\ lastStep.call.uuid # selectedGroupId
    /\ \E k \in DOMAIN groups :
          /\ groups[k].uuid = lastStep.call.uuid
          /\ groups[k].name = <<"a">>
    /\ \E k \in DOMAIN groups :
          /\ groups[k].uuid = selectedGroupId
          /\ groups[k].name = <<"b">>


\* C15 as stated: when createTopicGroup has succeeded, and the repair that
\* follows has run, groups is what it was with the new group added last,
\* and the new group is the one selected.
CreatedGroupSelected ==
    [][\A group \in NewGroups :
          CreateGroupDone(TRUE, group) =>
              /\ groups' = Append(groups, group)
              /\ selectedGroupId' = group.uuid]_vars

\* C15, amended: groups is what it was with the new group added last; the
\* new group is the one selected if the user is signed in or the group is
\* public; after a sign-out during the creation a private new group is not
\* selected: the selection is a public group, or empty when there is none.
CreatedGroupAppended ==
    [][\A group \in NewGroups :
          CreateGroupDone(TRUE, group) =>
              /\ groups' = Append(groups, group)
              /\ IF isAuthenticated = "true" \/ group.is_public
                 THEN selectedGroupId' = group.uuid
                 ELSE /\ selectedGroupId' # group.uuid
                      /\ \/ \E k \in DOMAIN groups :
                               /\ groups[k].is_public
                               /\ groups[k].uuid = selectedGroupId'
                         \/ /\ selectedGroupId' = ""
                            /\ \A k \in DOMAIN groups : ~groups[k].is_public]_vars

\* A group was created while the groups load of a signed-in user was
\* pending: it is the last of groups and the one selected.
CreatedGroupAppendedWitness ==
    /\ lastStep = [op |-> "CreateGroupDone", ok |-> TRUE]
    /\ isAuthenticated = "true"
    /\ groupsReqs > 0
    /\ groups # << >>
    /\ groups[Len(groups)].uuid = "g3"
    /\ selectedGroupId = "g3"


\* C16: whenever a topic is selected and is among the loaded topics, its
\* group is the selected group.
SelectedTopicInSelectedGroup ==
    selectedTopicUuid # "" =>
        \A k \in DOMAIN topics :
            topics[k].uuid = selectedTopicUuid =>
                topics[k].groupUuid = selectedGroupId


\* The calls of `after` that were issued in the step from `before`.
IssuedIn(before, after) ==
    {call \in BagToSet(after) : CopiesIn(call, after) > CopiesIn(call, before)}

\* C17: a step that reloads the groups or flips isAuthenticated issues no
\* feed request and no group-scoped topics request for a group that the
\* repair for the new groups and isAuthenticated replaces or clears.
RepairBeforeFetch ==
    [][lastStep'.op \in {"LoadGroupsDone", "RefreshAuthDone", "SignOut"} =>
          /\ \A call \in IssuedIn(topicsReqs, topicsReqs') :
                call.groupUuid # "" =>
                    Repair(groups', isAuthenticated', call.groupUuid)
                        = call.groupUuid
          /\ \A call \in IssuedIn(feedReqs, feedReqs') :
                call.groupId # "" =>
                    Repair(groups', isAuthenticated', call.groupId)
                        = call.groupId]_vars


\* r is num/100 rounded to the nearest integer, a tie going up.
IsRounded(r, num) == 200 * r - 100 <= 2 * num /\ 2 * num < 200 * r + 100

\* C19: the relevance score of the view item is 0 for a null or NaN score,
\* the score times 100, rounded, for a score of at most 1, and the rounded
\* score for a score above 1; 0.87 gives 87 and 87 gives 87; a score in
\* [0, 1] or [0, 100] gives an integer from 0 to 100.
ScoreNormalized ==
    lastStep.op = "mapNewsItem" =>
        LET score == lastStep.item.relevance_score
            r == news[1].relevanceScore
        IN  /\ score.kind # "number" => r = 0
            /\ score.kind = "number" /\ score.hundredths <= 100 =>
                   IsRounded(r, 100 * score.hundredths)
            /\ score.kind = "number" /\ score.hundredths > 100 =>
                   IsRounded(r, score.hundredths)
            /\ score.kind = "number" /\ score.hundredths \in {87, 8700} => r = 87
            /\ score.kind = "number" /\ score.hundredths \in 0..10000 =>
                   r \in 0..100

\* The score 0.87 was normalized to 87.
ScoreNormalizedWitness ==
    /\ lastStep.op = "mapNewsItem"
    /\ lastStep.item.relevance_score = [kind |-> "number", hundredths |-> 87]
    /\ news[1].relevanceScore = 87

\* C20: the source of the view item is the host of the URL without a leading
\* "www." when the URL parses; otherwise the raw source when it is not
\* empty, and "Unknown" when it is.
SourceDerived ==
    lastStep.op = "mapNewsItem" =>
        LET item == lastStep.item
        IN  news[1].source =
                IF UrlParses(item.url) THEN StripWww(hostname(item.url))
                ELSE IF item.source # << >> THEN item.source
                ELSE Unknown


\* The ids of the backend's items that satisfy Keep, in the backend's order.
ServerIdsWhere(Keep(_)) ==
    LET kept == SelectSeq(ServerItems, Keep)
    IN  [i \in DOMAIN kept |-> kept[i].id]

\* The ids a load started for the selection `call` has to commit.
ScopedIds(call) ==
    IF call.topicUuid # ""
    THEN ServerIdsWhere(LAMBDA it : it.topic_uuid = call.topicUuid)
    ELSE IF call.groupId # ""
    THEN ServerIdsWhere(LAMBDA it :
             \E k \in DOMAIN call.topics :
                 /\ call.topics[k].groupUuid = call.groupId
                 /\ call.topics[k].uuid = it.topic_uuid)
    ELSE ServerIdsWhere(LAMBDA it : TRUE)

\* C21: a feed load is issued only when authenticated, for the selected
\* topic, the selected group and the loaded topics of the render that
\* issues it; when its response arrives, the items committed are those of
\* the topic if one was selected, else those of the topics of the selected
\* group (none when the group has no topics), else all items.
FeedScoped ==
    [][/\ \A call \in IssuedIn(feedReqs, feedReqs') :
             /\ isAuthenticated' = "true"
             /\ call.topicUuid = selectedTopicUuid'
             /\ call.topics = topics'
       /\ IssuedIn(feedReqs, feedReqs') # {} =>
             \E call \in IssuedIn(feedReqs, feedReqs') :
                 call.groupId = selectedGroupId'
       /\ \A call \in BagToSet(feedReqs) :
             LoadFeedDone(call, TRUE) =>
                 [i \in DOMAIN news' |-> news'[i].id] = ScopedIds(call)]_vars

\* A load for the group g2 with both topics loaded has committed the item of
\* the topic of g2 only, out of the unscoped feed.
FeedScopedWitness ==
    /\ lastStep = [op |-> "LoadFeedDone", ok |-> TRUE]
    /\ isAuthenticated = "true"
    /\ selectedTopicUuid = ""
    /\ selectedGroupId = "g2"
    /\ Len(topics) = 2
    /\ feedReqs = EmptyBag
    /\ [i \in DOMAIN news |-> news[i].id] = <<2>>

\* A load for the topic t1 has committed the items of t1.
FeedScopedTopicWitness ==
    /\ lastStep = [op |-> "LoadFeedDone", ok |-> TRUE]
    /\ selectedTopicUuid = "t1"
    /\ feedReqs = EmptyBag
    /\ [i \in DOMAIN news |-> news[i].id] = <<1>>


\* C21 for the Dashboard of part_012:27: a load without a selected topic
\* requests the unscoped feed, and the items committed are those of the
\* topic if one was selected, else those of the loaded topics of the
\* selected group, else all items.
FeedScopedByClient ==
    [][/\ \A call \in IssuedIn(feedReqs, feedReqs') :
             /\ call.topicUuid = selectedTopicUuid'
             /\ call.topicUuid = "" => call.request = "listContentFeed"
       /\ \A call \in BagToSet(feedReqs),
             response \in ContentByGroupResponses :
             loadFeedByGroupDone(call, TRUE, response) =>
                 [i \in DOMAIN news' |-> news'[i].id] =
                     ScopedIds([topicUuid |-> call.topicUuid,
                                groupId |-> call.groupId,
                                topics |-> topics])]_vars


\* C22: the timestamp of the view item is the publication date when it is
\* present and parses; otherwise the creation date when that parses; the
\* current time only when neither parses.
TimestampDerived ==
    lastStep.op = "mapNewsItem" =>
        LET item == lastStep.item
        IN  news[1].timestamp =
                IF item.published_at # << >> /\ NewDate(item.published_at).valid
                THEN NewDate(item.published_at)
                ELSE IF NewDate(item.created_at).valid
                THEN NewDate(item.created_at)
                ELSE Now


\* C23 as stated: a createTopic that succeeded puts the created topic at
\* the end of topics, the topics there were staying in their order, and
\* leaves selectedGroupId as it is.
TopicAppended ==
    [][\A call \in BagToSet(topicsReqs) :
          addTopicDone(call, TRUE) =>
              /\ topics' = Append(topics, toTopicItem(CreatedTopic(call)))
              /\ selectedGroupId' = selectedGroupId]_vars

\* C23, amended: a createTopic that succeeded puts the created topic at the
\* front of topics, the topics there were following it in their order, and
\* leaves selectedGroupId as it is.
TopicPrepended ==
    [][\A call \in BagToSet(topicsReqs) :
          addTopicDone(call, TRUE) =>
              /\ Len(topics') = Len(topics) + 1
              /\ topics'[1] = toTopicItem(CreatedTopic(call))
              /\ \A k \in DOMAIN topics : topics'[k + 1] = topics[k]
              /\ selectedGroupId' = selectedGroupId]_vars

\* A topic was created while two topics were loaded: it is the first of
\* three, the two others follow in their order.
TopicPrependedWitness ==
    /\ lastStep = [op |-> "addTopicDone", ok |-> TRUE]
    /\ Len(topics) = 3
    /\ topics[1].uuid = "t3"
    /\ topics[2].uuid = "t1"
    /\ topics[3].uuid = "t2"


\* The positions of the topic with this uuid in a list.
PositionsOf(list, uuid) == {k \in DOMAIN list : list[k].uuid = uuid}

\* C24: an updateTopic that succeeded leaves topics with its length, puts
\* the updated topic where the entry with its uuid was and changes no other
\* entry; a deleteTopic that succeeded takes out the entry with that uuid,
\* the entries before it staying where they were and the entries after it
\* moving up by one.
TopicReplacedInPlace ==
    [][\A call \in BagToSet(topicsReqs) :
          /\ saveTopicDone(call, TRUE) =>
                /\ Len(topics') = Len(topics)
                /\ \A k \in DOMAIN topics :
                      IF topics[k].uuid = call.uuid
                      THEN /\ topics'[k].uuid = call.uuid
                           /\ topics'[k].queries = call.queries
                           /\ topics'[k].groupUuid = topics[k].groupUuid
                      ELSE topics'[k] = topics[k]
          /\ removeTopicDone(call, TRUE) =>
                /\ PositionsOf(topics', call.uuid) = {}
                /\ Len(topics') =
                       Len(topics) - Cardinality(PositionsOf(topics, call.uuid))
                /\ \A k \in DOMAIN topics' :
                      topics'[k] =
                          IF \E p \in PositionsOf(topics, call.uuid) : p <= k
                          THEN topics[k + 1] ELSE topics[k]]_vars

\* The second of two topics was saved with new queries: it is still the
\* second, and the first is as it was loaded.
TopicReplacedInPlaceWitness ==
    /\ lastStep = [op |-> "saveTopicDone", ok |-> TRUE]
    /\ Len(topics) = 2
    /\ topics[1] = toTopicItem(ServerTopics[1])
    /\ topics[2].uuid = "t2"
    /\ topics[2].queries # ServerTopics[2].queries

\* The first of the loaded topics was deleted: the second is now the first.
TopicRemovedWitness ==
    /\ lastStep = [op |-> "removeTopicDone", ok |-> TRUE]
    /\ Len(topics) = 1
    /\ topics[1].uuid = "t2"


\* The topics of a list that belong to the selected group.
TopicsOfSelectedGroup ==
    SelectSeq(topics, LAMBDA topic : topic.groupUuid = selectedGroupId)

\* C25 as stated: filteredTopics is the topics of the selected group, except
\* that it is every topic for an unauthenticated user with no group
\* selected.
FilteredByGroup ==
    filteredTopics =
        IF isAuthenticated = "false" /\ selectedGroupId = ""
        THEN topics ELSE TopicsOfSelectedGroup

\* C25, amended: filteredTopics is the topics of the selected group when a
\* group is selected and the user is not unauthenticated; it is every topic
\* when the user is unauthenticated, with or without a group selected, and
\* when no group is selected, whoever the user is.
FilteredByGroupWhenSignedIn ==
    /\ isAuthenticated # "false" /\ selectedGroupId # "" =>
           filteredTopics = TopicsOfSelectedGroup
    /\ isAuthenticated = "false" => filteredTopics = topics
    /\ selectedGroupId = "" => filteredTopics = topics

\* A signed-in user has the topics of two groups loaded and one group
\* selected: filteredTopics is the one topic of that group.
FilteredByGroupWitness ==
    /\ isAuthenticated = "true"
    /\ selectedGroupId = "g2"
    /\ Len(topics) = 2
    /\ Len(filteredTopics) = 1
    /\ filteredTopics[1].uuid = "t2"


\* C26: when a toggleBookmark call on an item has resolved and no other call
\* on that item is in flight, the flag the item shows is the backend's: the
\* item is bookmarked there if and only if isBookmarked is true.
BookmarkAgreesWithBackend ==
    (/\ lastStep.op = "ToggleBookmarkDone"
     /\ \A call \in BagToSet(bookmarkReqs) :
            call.item.id # lastStep.call.item.id) =>
        \A k \in DOMAIN news :
            news[k].id = lastStep.call.item.id =>
                (news[k].isBookmarked <=> news[k].id \in serverBookmarks)


\* C27: loading is true in every state in which a feed request of loadFeed
\* has not resolved, so a step makes it false only when none is in flight.
LoadingWhileInFlight ==
    feedReqs # EmptyBag => loading


\* The selections a load can be started for.
FeedSelections ==
    [topicUuid : {""} \cup TopicUuids(ServerTopics),
     groupId : {""} \cup GroupIds,
     topics : {<< >>, [k \in DOMAIN ServerTopics |-> toTopicItem(ServerTopics[k])]}]

\* The feed loader is at rest: nothing loading, nothing in flight, and
\* either an error with no items, or the items some load commits.
FeedAtRest ==
    /\ ~loading
    /\ feedReqs = EmptyBag
    /\ \/ error # NoError /\ news = << >>
       \/ \E call \in FeedSelections :
             [i \in DOMAIN news |-> news[i].id] = ScopedIds(call)

\* C28: when every feed request is answered and from some point on no step
\* issues a new one (the selection changes and authentication flips are
\* finitely many), the feed loader comes to rest and stays there.
FeedComesToRest ==
    <>[][IssuedIn(feedReqs, feedReqs') = {}]_vars => <>[]FeedAtRest

\* The load for a selected topic was answered and the loader is at rest.
FeedComesToRestWitness ==
    /\ lastStep.op = "LoadFeedDone"
    /\ selectedTopicUuid # ""
    /\ FeedAtRest


ViewModeResetOnSignOut ==
    [][(SignOut /\ contentViewMode = "edit") => contentViewMode' = "read"]_vars


\* What setTopics receives for a listTopics response.
LoadedTopics(groupUuid) ==
    [k \in DOMAIN ListTopics(groupUuid) |-> toTopicItem(ListTopics(groupUuid)[k])]

\* C30: for a signed-out visitor, when the response to a topics request for
\* a group arrives and no other topics request is in flight, topics is the
\* topics of the selected group, and empty when no group is selected.
PublicTopicsOfSelection ==
    [][\A call \in BagToSet(topicsReqs) :
          (/\ LoadTopicsDone(call, TRUE)
           /\ isAuthenticated = "false"
           /\ call.groupUuid # ""
           /\ topicsReqs' = EmptyBag) =>
              topics' = IF selectedGroupId' = "" THEN << >>
                        ELSE LoadedTopics(selectedGroupId')]_vars

====
